---- MODULE Spec2Model ----
(***************************************************************************)
(* Model of grf's ProbabilityPredictionStrategy                            *)
(* (core/src/prediction/ProbabilityPredictionStrategy.cpp).                *)
(*                                                                         *)
(* A double is modelled as a pair <<n, d>>: the rational n/d in lowest     *)
(* terms with d > 0, or one of the three IEEE specials <<1, 0>> (+inf),    *)
(* <<-1, 0>> (-inf) and <<0, 0>> (NaN).  Every arithmetic operator passes  *)
(* its exact result through Fl, which rounds it to fp_bits significand     *)
(* bits (round to nearest, ties to even); fp_bits = 0 stands for exact     *)
(* arithmetic, the reading under which the specification's "up to          *)
(* floating-point rounding" statements are equalities.                     *)
(*                                                                         *)
(* Sample weights are counted in units of 1e-17, so that the threshold     *)
(* 1e-16 of precompute_prediction_values is the integer WeightEps.         *)
(***************************************************************************)
EXTENDS Integers, Sequences, FiniteSets, TLC

\* ------------------------------------------------------------------ bounds
MaxClasses == 2
MaxLeaves == 4
SignificandBits == 4
NumSamples == 2
MaxLeafSize == 2
MaxPreLeaves == 2
MaxErrLeaves == 1

\* 1e-16 in weight units of 1e-17 (line 115)
WeightEps == 10

VARIABLES
  pc,                  \* position of the running method
  num_classes,         \* the strategy's field
  fp_bits,             \* significand bits of the arithmetic, 0 = exact
  \* ---- compute_variance / compute_error: parameters and locals
  average, leaf_values, ci_group_size,
  cls, group, good_group, average_outcome,
  num_good_groups, psi_squared, psi_grouped_squared, group_psi,
  var_between, var_total, group_noise,
  variance_estimates, result,
  debias_log,          \* calls made on bayes_debiaser: arguments and return
  empty_queried,       \* leaf indices passed to leaf_values.empty
  value_read,          \* <<leaf, class>> pairs passed to leaf_values.get
  sample, err_result,
  \* ---- precompute_prediction_values: parameters and locals
  leaf_samples, data, values, leaf_i, sample_pos, weight_sum, pre_result,
  data_read            \* sample indices passed to the data accessor

cvVars == <<average, leaf_values, ci_group_size, cls, group, good_group,
            average_outcome, num_good_groups, psi_squared, psi_grouped_squared,
            group_psi, var_between, var_total, group_noise, variance_estimates,
            result, debias_log, empty_queried, value_read>>
ceVars == <<sample, err_result>>
ppVars == <<leaf_samples, values, leaf_i, sample_pos, weight_sum, pre_result>>
vars == <<pc, num_classes, fp_bits, cvVars, ceVars, ppVars, data, data_read>>

\* ------------------------------------------------------------ double model
NaN == <<0, 0>>
Zero == <<0, 1>>
One == <<1, 1>>

Abs(n) == IF n < 0 THEN -n ELSE n
Sign(n) == IF n < 0 THEN -1 ELSE IF n > 0 THEN 1 ELSE 0

RECURSIVE GCD(_, _)
GCD(a, b) == IF b = 0 THEN a ELSE GCD(b, a % b)

\* n/d in lowest terms with a positive denominator; d = 0 gives inf or NaN
Norm(n, d) ==
  IF d = 0 THEN <<Sign(n), 0>>
  ELSE LET g == GCD(Abs(n), Abs(d)) IN <<(Sign(d) * n) \div g, Abs(d) \div g>>

IsNaN(x) == x = NaN
IsFinite(x) == x[2] # 0
D(n) == <<n, 1>>

Pow2(e) == 2 ^ e

\* scale an/ad by powers of two until the quotient has exactly `bits` bits
RECURSIVE Scale(_, _, _, _)
Scale(an, ad, e, bits) ==
  IF an >= ad * Pow2(bits) THEN Scale(an, 2 * ad, e + 1, bits)
  ELSE IF an < ad * Pow2(bits - 1) THEN Scale(2 * an, ad, e - 1, bits)
  ELSE <<an, ad, e>>

\* round to nearest, ties to even, to `bits` significand bits
RoundTo(x, bits) ==
  IF ~IsFinite(x) \/ x[1] = 0 THEN x
  ELSE LET sc == Scale(Abs(x[1]), x[2], 0, bits)
           q == sc[1] \div sc[2]
           r == sc[1] % sc[2]
           m == IF 2 * r > sc[2] \/ (2 * r = sc[2] /\ q % 2 = 1) THEN q + 1 ELSE q
       IN IF sc[3] >= 0 THEN Norm(Sign(x[1]) * m * Pow2(sc[3]), 1)
          ELSE Norm(Sign(x[1]) * m, Pow2(-sc[3]))

Fl(x) == IF fp_bits = 0 THEN x ELSE RoundTo(x, fp_bits)

\* exact results, IEEE rules for the specials
QAdd(a, b) ==
  IF ~IsFinite(a) /\ ~IsFinite(b) THEN (IF a = b THEN a ELSE NaN)
  ELSE Norm(a[1] * b[2] + b[1] * a[2], a[2] * b[2])
QNeg(a) == <<-a[1], a[2]>>
QSub(a, b) == QAdd(a, QNeg(b))
QMul(a, b) == Norm(a[1] * b[1], a[2] * b[2])
QDiv(a, b) == Norm(a[1] * b[2], a[2] * b[1])

\* the operators of double: the exact result, rounded
DAdd(a, b) == Fl(QAdd(a, b))
DSub(a, b) == Fl(QSub(a, b))
DMul(a, b) == Fl(QMul(a, b))
DDiv(a, b) == Fl(QDiv(a, b))
DAbs(a) == <<Abs(a[1]), a[2]>>
\* a <= b; false when either side is NaN
DLeq(a, b) ==
  /\ ~IsNaN(a) /\ ~IsNaN(b)
  /\ IF IsFinite(a) /\ IsFinite(b) THEN a[1] * b[2] <= b[1] * a[2]
     ELSE IF ~IsFinite(a) THEN a[1] < 0 \/ a = b
     ELSE b[1] > 0

\* ------------------------------------------------- inputs of the operations
ProbVals == {<<1, 5>>, <<3, 10>>, <<7, 10>>, <<4, 5>>}
AvgVals == {<<1, 2>>, <<1, 5>>}
GroupSizes == {2, 3}
DebiasOutputs == {<<1, 100>>}

\* the vector <<p, 1 - p, 0, ...>> of length nc
ClassVector(p, nc) ==
  [c \in 1..nc |-> IF c = 1 THEN p
                   ELSE IF c = 2 THEN Norm(p[2] - p[1], p[2]) ELSE Zero]
LeafVectors(nc) == {<<>>} \cup {ClassVector(p, nc) : p \in ProbVals}
Tables(nc, maxn) == UNION {[1..n -> LeafVectors(nc)] : n \in 0..maxn}
Averages(nc) == {ClassVector(a, nc) : a \in AvgVals}

Weights == {0, 3, 7, 20}
DataSets(nc) == [1..NumSamples -> [outcome : 0..(nc - 1), weight : Weights]]
Leaves == UNION {[1..n -> 0..(NumSamples - 1)] : n \in 0..MaxLeafSize}
LeafSampleSets == UNION {[1..n -> Leaves] : n \in 0..MaxPreLeaves}

\* ---------------------------------------------------- collaborator: Data
Data_get_outcome(dat, smp) == dat[smp + 1].outcome
Data_get_weight(dat, smp) == D(dat[smp + 1].weight)

\* ---------------------------------------- collaborators: PredictionValues
PredictionValues(vals, nc) == [values |-> vals, num_types |-> nc]
PV_get_num_nodes(vals) == Len(vals)
PV_in_range(vals, node) == node >= 0 /\ node < Len(vals)
PV_empty(vals, node) == Len(vals[node + 1]) = 0
PV_has(vals, node, c) == PV_in_range(vals, node) /\ c < Len(vals[node + 1])
PV_get(vals, node, c) == vals[node + 1][c + 1]

\* ------------------------------- collaborator: ObjectiveBayesDebiaser
\* an opaque function with a non-negative result; on an undefined (NaN)
\* argument nothing is known about the result
DebiasReturns(vb, gn, n) ==
  IF IsNaN(vb) \/ IsNaN(gn) \/ IsNaN(n) THEN DebiasOutputs \cup {NaN}
  ELSE DebiasOutputs

\* ------------------------------------------------------- compute_variance
\* line 39: std::vector<double> variance_estimates(num_classes)
NewEstimates(nc) == [c \in 1..nc |-> Zero]

\* faulty variant: the group count rounded up
NumGroups_RoundUp(num_nodes, k) == (num_nodes + k - 1) \div k

\* line 47: leaf_values.get_num_nodes() / ci_group_size, on size_t
NumGroups(num_nodes, k) == num_nodes \div k

\* faulty variant: good_group = !empty(...), the last leaf of the group decides
GoodAfter_LastLeafDecides(good, isEmpty) == ~isEmpty

\* lines 50-52: if (empty(...)) good_group = false
GoodAfter(good, isEmpty) == IF isEmpty THEN FALSE ELSE good

\* lines 54-56: if (!good_group) continue; num_good_groups++
CountGood(n, good) == IF good THEN DAdd(n, One) ELSE n

\* faulty variant: the value is not centred
Deviation_NotCentred(v, avg) == v

\* line 62: psi_1 = leaf_values.get(i, cls) - average_outcome
Deviation(v, avg) == DSub(v, avg)

\* faulty variant: the group sum is not divided
GroupMean_NotDivided(gp, k) == gp

\* line 68: group_psi /= ci_group_size
GroupMean(gp, k) == DDiv(gp, D(k))

\* faulty variant: a zero check on the number of good groups
VarBetween_Guarded(psg, n) == IF n = Zero THEN Zero ELSE DDiv(psg, n)

\* line 72
VarBetween(psg, n) == DDiv(psg, n)

\* faulty variant: var_total divided by the number of groups, not of leaves
VarTotal_PerGroup(ps, n, k) == DDiv(ps, n)

\* line 73
VarTotal(ps, n, k) == DDiv(ps, DMul(n, D(k)))

\* line 76
GroupNoise(vt, vb, k) == DDiv(DSub(vt, vb), D(k - 1))

\* faulty variant: zeros for the unsupported estimate
ErrorPairs_Zero == << <<Zero, Zero>> >>

\* line 132
ErrorPairs == << <<NaN, NaN>> >>

CallComputeVariance ==
  /\ pc = "idle"
  /\ \E avg \in Averages(num_classes), tab \in Tables(num_classes, MaxLeaves),
        k \in GroupSizes :
       /\ average' = avg
       /\ leaf_values' = tab
       /\ ci_group_size' = k
  /\ variance_estimates' = NewEstimates(num_classes)
  /\ cls' = 0
  /\ pc' = "cv_cls"
  /\ UNCHANGED <<num_classes, fp_bits, group, good_group, average_outcome,
                 num_good_groups, psi_squared, psi_grouped_squared, group_psi,
                 var_between, var_total, group_noise, result, debias_log,
                 empty_queried, value_read, ceVars, ppVars, data, data_read>>

\* lines 40-45 and, once the class loop is over, line 86
CVClassLoop ==
  /\ pc = "cv_cls"
  /\ IF cls < num_classes
     THEN /\ average_outcome' = average[cls + 1]
          /\ num_good_groups' = Zero
          /\ psi_squared' = Zero
          /\ psi_grouped_squared' = Zero
          /\ group' = 0
          /\ pc' = "cv_group"
          /\ UNCHANGED result
     ELSE /\ result' = variance_estimates
          /\ pc' = "cv_done"
          /\ UNCHANGED <<average_outcome, num_good_groups, psi_squared,
                         psi_grouped_squared, group>>
  /\ UNCHANGED <<num_classes, fp_bits, average, leaf_values, ci_group_size, cls,
                 good_group, group_psi, var_between, var_total, group_noise,
                 variance_estimates, debias_log, empty_queried, value_read,
                 ceVars, ppVars, data, data_read>>

\* the leaf indices of a group, lines 50 and 61
GroupIndices(g, k) == {g * k + jj : jj \in 0..(k - 1)}

\* lines 48-53: good_group after the loop over the group's leaves from jj on
RECURSIVE CheckGroup(_, _, _, _, _)
CheckGroup(vals, g, k, jj, good) ==
  IF jj = k THEN good
  ELSE CheckGroup(vals, g, k, jj + 1, GoodAfter(good, PV_empty(vals, g * k + jj)))

\* lines 60-66: <<psi_squared, group_psi>> after the loop over the group's
\* leaves from jj on
RECURSIVE SumGroup(_, _, _, _, _, _, _)
SumGroup(vals, g, k, c, avg, jj, acc) ==
  IF jj = k THEN acc
  ELSE LET psi_1 == Deviation(PV_get(vals, g * k + jj, c), avg) IN
         SumGroup(vals, g, k, c, avg, jj + 1,
                  <<DAdd(acc[1], DMul(psi_1, psi_1)), DAdd(acc[2], psi_1)>>)

\* lines 47-70, one iteration of the group loop
CVGroup ==
  /\ pc = "cv_group"
  /\ group < NumGroups(PV_get_num_nodes(leaf_values), ci_group_size)
  /\ LET idx == GroupIndices(group, ci_group_size)
         good == CheckGroup(leaf_values, group, ci_group_size, 0, TRUE)
     IN /\ empty_queried' = empty_queried \cup idx
        /\ IF \E i \in idx : ~PV_in_range(leaf_values, i)
           THEN /\ pc' = "thrown"
                /\ UNCHANGED <<group, good_group, num_good_groups, psi_squared,
                               psi_grouped_squared, group_psi, value_read>>
           ELSE /\ good_group' = good
                /\ num_good_groups' = CountGood(num_good_groups, good)
                /\ IF ~good
                   THEN /\ group' = group + 1
                        /\ pc' = pc
                        /\ UNCHANGED <<psi_squared, psi_grouped_squared,
                                       group_psi, value_read>>
                   ELSE /\ value_read' = value_read \cup {<<i, cls>> : i \in idx}
                        /\ IF \E i \in idx : ~PV_has(leaf_values, i, cls)
                           THEN /\ pc' = "thrown"
                                /\ UNCHANGED <<group, psi_squared,
                                               psi_grouped_squared, group_psi>>
                           ELSE LET sums == SumGroup(leaf_values, group, ci_group_size,
                                                     cls, average_outcome, 0,
                                                     <<psi_squared, Zero>>)
                                    mean == GroupMean(sums[2], ci_group_size)
                                IN /\ psi_squared' = sums[1]
                                   /\ group_psi' = mean
                                   /\ psi_grouped_squared' =
                                        DAdd(psi_grouped_squared, DMul(mean, mean))
                                   /\ group' = group + 1
                                   /\ pc' = pc
  /\ UNCHANGED <<num_classes, fp_bits, average, leaf_values, ci_group_size, cls,
                 average_outcome, var_between, var_total, group_noise,
                 variance_estimates, result, debias_log, ceVars, ppVars, data,
                 data_read>>

\* faulty variant: the simple correction var_between - group_noise of lines 78-79
CVFinish_SimpleCorrection ==
  /\ pc = "cv_group"
  /\ ~(group < NumGroups(PV_get_num_nodes(leaf_values), ci_group_size))
  /\ LET vb == VarBetween(psi_grouped_squared, num_good_groups)
         vt == VarTotal(psi_squared, num_good_groups, ci_group_size)
         gn == GroupNoise(vt, vb, ci_group_size)
     IN /\ var_between' = vb
        /\ var_total' = vt
        /\ group_noise' = gn
        /\ \E var_debiased \in DebiasReturns(vb, gn, num_good_groups) :
             /\ debias_log' = Append(debias_log,
                  [var_between |-> vb, group_noise |-> gn,
                   num_good_groups |-> num_good_groups, ret |-> var_debiased])
             /\ variance_estimates' =
                  [variance_estimates EXCEPT ![cls + 1] = DSub(vb, gn)]
  /\ cls' = cls + 1
  /\ pc' = "cv_cls"
  /\ UNCHANGED <<num_classes, fp_bits, average, leaf_values, ci_group_size,
                 group, good_group, average_outcome, num_good_groups,
                 psi_squared, psi_grouped_squared, group_psi, result,
                 empty_queried, value_read, ceVars, ppVars, data, data_read>>

\* line 47 with the loop condition false, lines 72-83 and ++cls of line 40
CVFinish ==
  /\ pc = "cv_group"
  /\ ~(group < NumGroups(PV_get_num_nodes(leaf_values), ci_group_size))
  /\ LET vb == VarBetween(psi_grouped_squared, num_good_groups)
         vt == VarTotal(psi_squared, num_good_groups, ci_group_size)
         gn == GroupNoise(vt, vb, ci_group_size)
     IN /\ var_between' = vb
        /\ var_total' = vt
        /\ group_noise' = gn
        /\ \E var_debiased \in DebiasReturns(vb, gn, num_good_groups) :
             /\ debias_log' = Append(debias_log,
                  [var_between |-> vb, group_noise |-> gn,
                   num_good_groups |-> num_good_groups, ret |-> var_debiased])
             /\ variance_estimates' =
                  [variance_estimates EXCEPT ![cls + 1] = var_debiased]
  /\ cls' = cls + 1
  /\ pc' = "cv_cls"
  /\ UNCHANGED <<num_classes, fp_bits, average, leaf_values, ci_group_size,
                 group, good_group, average_outcome, num_good_groups,
                 psi_squared, psi_grouped_squared, group_psi, result,
                 empty_queried, value_read, ceVars, ppVars, data, data_read>>

\* ---------------------------------------------------------- compute_error
\* lines 127-133: the whole body is the return statement
ComputeError ==
  /\ pc = "idle"
  /\ \E smp \in 0..(NumSamples - 1), avg \in Averages(num_classes),
        tab \in Tables(num_classes, MaxErrLeaves), dat \in DataSets(num_classes) :
       /\ sample' = smp
       /\ average' = avg
       /\ leaf_values' = tab
       /\ data' = dat
  /\ err_result' = ErrorPairs
  /\ pc' = "ce_done"
  /\ UNCHANGED <<num_classes, fp_bits, ci_group_size, cls, group, good_group,
                 average_outcome, num_good_groups, psi_squared,
                 psi_grouped_squared, group_psi, var_between, var_total,
                 group_noise, variance_estimates, result, debias_log,
                 empty_queried, value_read, ppVars, data_read>>

\* ------------------------------------------- precompute_prediction_values
\* line 106: averages.resize(num_classes)
Resize(v, nc) == [c \in 1..nc |-> IF c <= Len(v) THEN v[c] ELSE Zero]

\* line 115: std::abs(weight_sum) <= 1e-16
TreatAsEmpty(ws) == DLeq(DAbs(ws), D(WeightEps))

\* lines 119-121
Normalized(averages, ws, nc) == [c \in 1..nc |-> DDiv(averages[c], ws)]

\* lines 96-97
CallPrecompute ==
  /\ pc = "idle"
  /\ \E ls \in LeafSampleSets, dat \in DataSets(num_classes) :
       /\ leaf_samples' = ls
       /\ data' = dat
       /\ values' = [i \in 1..Len(ls) |-> <<>>]
  /\ leaf_i' = 0
  /\ pc' = "pp_leaf"
  /\ UNCHANGED <<num_classes, fp_bits, cvVars, ceVars, sample_pos, weight_sum,
                 pre_result, data_read>>

\* lines 99-107 and, once the leaf loop is over, line 124
PPLeafLoop ==
  /\ pc = "pp_leaf"
  /\ IF leaf_i < Len(leaf_samples)
     THEN IF Len(leaf_samples[leaf_i + 1]) = 0
          THEN /\ leaf_i' = leaf_i + 1
               /\ UNCHANGED <<pc, values, weight_sum, sample_pos, pre_result>>
          ELSE /\ values' = [values EXCEPT
                               ![leaf_i + 1] = Resize(values[leaf_i + 1], num_classes)]
               /\ weight_sum' = Zero
               /\ sample_pos' = 0
               /\ pc' = "pp_sample"
               /\ UNCHANGED <<leaf_i, pre_result>>
     ELSE /\ pre_result' = PredictionValues(values, num_classes)
          /\ pc' = "pp_done"
          /\ UNCHANGED <<leaf_i, values, weight_sum, sample_pos>>
  /\ UNCHANGED <<num_classes, fp_bits, cvVars, ceVars, leaf_samples, data,
                 data_read>>

\* lines 108-112, one iteration
PPSample ==
  /\ pc = "pp_sample"
  /\ sample_pos < Len(leaf_samples[leaf_i + 1])
  /\ LET smp == leaf_samples[leaf_i + 1][sample_pos + 1]
         sample_class == Data_get_outcome(data, smp)
         averages == values[leaf_i + 1]
     IN /\ values' = [values EXCEPT ![leaf_i + 1] =
                        [averages EXCEPT ![sample_class + 1] =
                           DAdd(averages[sample_class + 1], Data_get_weight(data, smp))]]
        /\ weight_sum' = DAdd(weight_sum, Data_get_weight(data, smp))
        /\ data_read' = data_read \cup {smp}
  /\ sample_pos' = sample_pos + 1
  /\ UNCHANGED <<pc, num_classes, fp_bits, cvVars, ceVars, leaf_samples, data,
                 leaf_i, pre_result>>

\* lines 114-122
PPLeafDone ==
  /\ pc = "pp_sample"
  /\ sample_pos = Len(leaf_samples[leaf_i + 1])
  /\ values' = IF TreatAsEmpty(weight_sum) THEN values
               ELSE [values EXCEPT ![leaf_i + 1] =
                       Normalized(values[leaf_i + 1], weight_sum, num_classes)]
  /\ leaf_i' = leaf_i + 1
  /\ pc' = "pp_leaf"
  /\ UNCHANGED <<num_classes, fp_bits, cvVars, ceVars, leaf_samples, data,
                 sample_pos, weight_sum, pre_result, data_read>>

\* ------------------------------------------------------- specifications
\* the state after construction (lines 23-25), nothing called yet
Idle ==
  /\ pc = "idle"
  /\ num_classes \in 1..MaxClasses
  /\ average = <<>> /\ leaf_values = <<>> /\ ci_group_size = 0
  /\ cls = 0 /\ group = 0 /\ good_group = TRUE
  /\ average_outcome = Zero /\ num_good_groups = Zero
  /\ psi_squared = Zero /\ psi_grouped_squared = Zero /\ group_psi = Zero
  /\ var_between = Zero /\ var_total = Zero /\ group_noise = Zero
  /\ variance_estimates = <<>> /\ result = <<>>
  /\ debias_log = <<>> /\ empty_queried = {} /\ value_read = {}
  /\ sample = 0 /\ err_result = <<>>
  /\ leaf_samples = <<>> /\ data = <<>> /\ values = <<>>
  /\ leaf_i = 0 /\ sample_pos = 0 /\ weight_sum = Zero
  /\ pre_result = PredictionValues(<<>>, num_classes)
  /\ data_read = {}

Init == Idle /\ fp_bits = 0
\* one class: each class's variance is computed from its own column alone
InitRounded == Idle /\ num_classes = 1 /\ fp_bits \in {0, SignificandBits}

Next ==
  \/ CallComputeVariance
  \/ CVClassLoop
  \/ CVGroup
  \/ CVFinish

NextError == ComputeError

NextPrecompute ==
  \/ CallPrecompute
  \/ PPLeafLoop
  \/ PPSample
  \/ PPLeafDone

\* compute_variance, exact arithmetic
Spec == Init /\ [][Next]_vars
\* compute_variance, arithmetic exact or rounded to
\* SignificandBits
SpecRounded == InitRounded /\ [][Next]_vars
\* compute_error
SpecError == Init /\ [][NextError]_vars
\* precompute_prediction_values, exact arithmetic
SpecPrecompute == Init /\ [][NextPrecompute]_vars
\* ====================================================== checked properties
\* what compute_variance is given, read off its parameters alone
NumNodes == Len(leaf_values)
FullGroups == CHOOSE g \in 0..NumNodes :
                g * ci_group_size <= NumNodes /\ (g + 1) * ci_group_size > NumNodes
GroupLeaves(g) == {g * ci_group_size + jj : jj \in 0..(ci_group_size - 1)}
IsGoodGroup(g) == \A i \in GroupLeaves(g) : Len(leaf_values[i + 1]) > 0
GoodGroupSet == {g \in 0..(FullGroups - 1) : IsGoodGroup(g)}
GoodLeaves == UNION {GroupLeaves(g) : g \in GoodGroupSet}

\* f[1] + ... + f[n]
RECURSIVE QSum(_, _)
QSum(f, n) == IF n = 0 THEN Zero ELSE QAdd(QSum(f, n - 1), f[n])

Dev(i, c) == QSub(leaf_values[i + 1][c + 1], average[c + 1])
\* the squared deviations of the leaves of good groups, summed
ExpSumSq(c) ==
  LET good == GoodLeaves IN
    QSum([i \in 1..NumNodes |->
            IF (i - 1) \in good THEN QMul(Dev(i - 1, c), Dev(i - 1, c)) ELSE Zero],
         NumNodes)
\* the mean deviation of group g
ExpGroupMean(g, c) ==
  QDiv(QSum([jj \in 1..ci_group_size |-> Dev(g * ci_group_size + jj - 1, c)],
            ci_group_size),
       D(ci_group_size))
\* the squared mean deviations of the good groups, summed
ExpSumGroupSq(c) ==
  QSum([g \in 1..FullGroups |->
          IF IsGoodGroup(g - 1)
          THEN LET mean == ExpGroupMean(g - 1, c) IN QMul(mean, mean)
          ELSE Zero],
       FullGroups)
ExpVarBetween(c) == QDiv(ExpSumGroupSq(c), D(Cardinality(GoodGroupSet)))
ExpVarTotal(c) == QDiv(ExpSumSq(c), D(Cardinality(GoodGroupSet) * ci_group_size))
ExpGroupNoise(vt, vb) == QDiv(QSub(vt, vb), D(ci_group_size - 1))
LastCall == debias_log[Len(debias_log)]
\* a class has just been finished: its locals and accumulators still stand
ClassDone == pc = "cv_cls" /\ cls > 0
DoneCls == cls - 1

\* C2: a group with an empty leaf adds nothing to num_good_groups, psi_squared
\* or psi_grouped_squared (after the group loop the three hold what the good
\* groups alone give), and no value of a leaf of such a group is read (the
\* record of reads grows only on the steps into cv_group and thrown).
C2_SkippedGroupsContributeNothing ==
  /\ ClassDone =>
       /\ num_good_groups = D(Cardinality(GoodGroupSet))
       /\ psi_squared = ExpSumSq(DoneCls)
       /\ psi_grouped_squared = ExpSumGroupSq(DoneCls)
  /\ pc \in {"cv_group", "thrown"} =>
       \A r \in value_read :
         \A i \in 0..(NumNodes - 1) :
           (i \div ci_group_size = r[1] \div ci_group_size) => Len(leaf_values[i + 1]) > 0

C2_Witness ==
  /\ ClassDone
  /\ GoodGroupSet # {}
  /\ \E g \in 0..(FullGroups - 1) :
       /\ ~IsGoodGroup(g)
       /\ \E i \in GroupLeaves(g) : Len(leaf_values[i + 1]) > 0

\* C9: exactly floor(num_nodes / ci_group_size) groups are processed; the
\* leaves after the last whole group are never asked for emptiness or value,
\* and no index >= num_nodes is accessed (the records of queries and reads
\* grow only on the steps into cv_group and thrown).
C9_TrailingLeavesUntouched ==
  /\ pc \in {"cv_group", "thrown"} =>
       LET whole == FullGroups * ci_group_size IN
         /\ \A i \in empty_queried : i >= 0 /\ i < whole /\ i < NumNodes
         /\ \A r \in value_read : r[1] >= 0 /\ r[1] < whole /\ r[1] < NumNodes
  /\ ClassDone =>
       /\ group = FullGroups
       /\ empty_queried = 0..(FullGroups * ci_group_size - 1)
  /\ pc # "thrown"

C9_Witness ==
  /\ pc = "cv_done"
  /\ NumNodes % ci_group_size # 0
  /\ GoodGroupSet # {}
  /\ Len(leaf_values[NumNodes]) > 0

\* C5: with a good group, the debiaser receives var_between = (sum over good
\* groups of the squared group mean deviation) / good groups, group_noise =
\* (var_total - var_between) / (ci_group_size - 1) with var_total = (sum of
\* squared deviations of the good groups' leaves) / (good groups *
\* ci_group_size), and the number of good groups.
C5_DebiaserArguments ==
  (ClassDone /\ GoodGroupSet # {}) =>
    LET vb == ExpVarBetween(DoneCls)
        vt == ExpVarTotal(DoneCls)
    IN /\ var_total = vt
       /\ LastCall.var_between = vb
       /\ LastCall.group_noise = ExpGroupNoise(vt, vb)
       /\ LastCall.num_good_groups = D(Cardinality(GoodGroupSet))

\* the worked example: values 0.2, 0.8, 0.3, 0.7, average 0.5, groups of 2
C5_Witness ==
  /\ ClassDone /\ DoneCls = 0 /\ ci_group_size = 2 /\ NumNodes = 4
  /\ \A i \in 1..4 : Len(leaf_values[i]) > 0
  /\ <<leaf_values[1][1], leaf_values[2][1], leaf_values[3][1], leaf_values[4][1]>>
       = << <<1, 5>>, <<4, 5>>, <<3, 10>>, <<7, 10>> >>
  /\ average[1] = <<1, 2>>
  /\ LastCall.var_between = Zero
  /\ var_total = <<13, 200>>
  /\ LastCall.group_noise = <<13, 200>>
  /\ LastCall.num_good_groups = D(2)

AllLeavesNonEmpty == \A i \in 1..NumNodes : Len(leaf_values[i]) > 0
Uniform(c) == \A i1, i2 \in 1..NumNodes : leaf_values[i1][c + 1] = leaf_values[i2][c + 1]

\* C6 as stated: no empty leaf and one value in every leaf of the class give
\* var_between = var_total = group_noise = 0 whatever the average is (taken
\* with at least one whole group).
C6_Original ==
  (ClassDone /\ AllLeavesNonEmpty /\ Uniform(DoneCls) /\ FullGroups >= 1) =>
    /\ var_between = Zero
    /\ var_total = Zero
    /\ group_noise = Zero

\* C6 amended: no empty leaf, one value v in every leaf of the class and at
\* least one whole group give group_noise = 0 and var_between = var_total =
\* (v - average[class])^2, which is 0 when the average equals v.
C6_UniformClass ==
  (ClassDone /\ AllLeavesNonEmpty /\ Uniform(DoneCls) /\ FullGroups >= 1) =>
    /\ group_noise = Zero
    /\ var_between = QMul(Dev(0, DoneCls), Dev(0, DoneCls))
    /\ var_total = var_between

C6_Witness ==
  /\ ClassDone /\ AllLeavesNonEmpty /\ Uniform(DoneCls) /\ FullGroups >= 2
  /\ var_between # Zero
  /\ group_noise = Zero

\* C7: with no good group the debiaser is handed 0/0 (NaN) for var_between
\* and group_noise and 0 for the count, and what it returns is stored and
\* returned as it is.
C7_NoGoodGroupUnguarded ==
  /\ (ClassDone /\ GoodGroupSet = {}) =>
       /\ LastCall.var_between = NaN
       /\ LastCall.group_noise = NaN
       /\ LastCall.num_good_groups = Zero
       /\ var_total = NaN
       /\ variance_estimates[DoneCls + 1] = LastCall.ret
  /\ (pc = "cv_done" /\ GoodGroupSet = {}) =>
       /\ Len(debias_log) = num_classes
       /\ \A c \in 1..num_classes : result[c] = debias_log[c].ret

C7_Witness ==
  /\ pc = "cv_done" /\ FullGroups >= 2 /\ GoodGroupSet = {}
  /\ result[1] = NaN

\* C4: the returned vector has num_classes entries, each non-negative when
\* there is a good group (the debiaser returning non-negative values).
C4_VarianceNonNegative ==
  pc = "cv_done" =>
    /\ Len(result) = num_classes
    /\ GoodGroupSet # {} => \A c \in 1..num_classes : DLeq(Zero, result[c])

C4_Witness ==
  /\ pc = "cv_done" /\ num_classes = 2 /\ GoodGroupSet # {}
  /\ Len(debias_log) = 2
  /\ DLeq(debias_log[1].var_between, debias_log[1].group_noise)
  /\ debias_log[1].var_between # debias_log[1].group_noise

\* C8: compute_error returns one pair of NaNs and reads neither the leaf
\* values nor the data.
C8_ErrorIsNaNPair ==
  pc = "ce_done" =>
    /\ Len(err_result) = 1
    /\ Len(err_result[1]) = 2
    /\ IsNaN(err_result[1][1]) /\ IsNaN(err_result[1][2])
    /\ empty_queried = {} /\ value_read = {} /\ data_read = {}

C8_Witness ==
  /\ pc = "ce_done" /\ sample = 1
  /\ Len(leaf_values) = 1 /\ Len(leaf_values[1]) > 0
  /\ data[2].weight > 0

\* C10 as stated: with a good group, var_between >= 0 and var_total >=
\* var_between, so group_noise >= 0.
C10_Original ==
  (ClassDone /\ GoodGroupSet # {}) =>
    /\ DLeq(Zero, var_between)
    /\ DLeq(var_between, var_total)
    /\ DLeq(Zero, group_noise)

\* C10 amended: with a good group, var_between >= 0 and var_total >= 0; in
\* exact arithmetic var_total >= var_between and group_noise >= 0, which
\* rounding can break.
C10_NonNegativeUpToRounding ==
  (ClassDone /\ GoodGroupSet # {}) =>
    /\ DLeq(Zero, var_between)
    /\ DLeq(Zero, var_total)
    /\ fp_bits = 0 => DLeq(var_between, var_total) /\ DLeq(Zero, group_noise)

C10_Witness ==
  /\ ClassDone /\ fp_bits = 0 /\ Cardinality(GoodGroupSet) >= 2
  /\ var_between # Zero
  /\ group_noise # Zero
  /\ DLeq(var_between, var_total)

\* ---- precompute_prediction_values
RECURSIVE TotalWeight(_)
TotalWeight(leaf) ==
  IF leaf = <<>> THEN 0 ELSE data[Head(leaf) + 1].weight + TotalWeight(Tail(leaf))

RECURSIVE SeqSum(_)
SeqSum(v) == IF v = <<>> THEN Zero ELSE QAdd(Head(v), SeqSum(Tail(v)))

\* C1: in the returned table, a leaf with samples whose total weight is at
\* most 1e-16 in absolute value holds the empty vector.
C1_TinyWeightLeafIsEmpty ==
  pc = "pp_done" =>
    \A i \in 1..Len(leaf_samples) :
      (Len(leaf_samples[i]) > 0 /\ Abs(TotalWeight(leaf_samples[i])) <= WeightEps)
        => pre_result.values[i] = <<>>

\* C3: in the returned table, a leaf reported non-empty holds num_classes
\* entries, none negative, that sum to 1.
C3_NonEmptyLeafIsDistribution ==
  pc = "pp_done" =>
    \A i \in 1..Len(leaf_samples) :
      ~PV_empty(pre_result.values, i - 1) =>
        /\ Len(pre_result.values[i]) = num_classes
        /\ \A c \in 1..num_classes : DLeq(Zero, pre_result.values[i][c])
        /\ SeqSum(pre_result.values[i]) = One

====
